---------------------------- MODULE Spec2Model ----------------------------
(***************************************************************************)
(* State-machine model of src/src/monitor/monitor.py (InstagramMonitor).   *)
(*                                                                         *)
(* Python values are modelled as tagged records so that json.dump can be   *)
(* computed as text: an int is [t |-> "int", v |-> 3], a dict is           *)
(* [t |-> "dict", v |-> <<k1, v1>>, <<k2, v2>>, ...] in insertion order.   *)
(* A file is either absent or holds a text; the text is kept as the JSON   *)
(* document json.load decodes first (doc) and the characters that follow   *)
(* it (trailing).  Indentation whitespace of json.dump(indent=4) is left   *)
(* out of the text.                                                        *)
(***************************************************************************)
EXTENDS Naturals, Sequences, FiniteSets, TLC

(***************************************************************************)
(* Bounds of the model.                                                    *)
(***************************************************************************)
NumHighlights == 2      \* highlight ids 1..NumHighlights exist at the provider
NumStories == 1         \* story ids 1..NumStories
MaxEnum == 2            \* longest enumeration get_highlights / get_stories yields
MaxClock == 2           \* the wall clock runs over ticks 0..MaxClock
MaxRuns == 2            \* run_monitor calls per behaviour
NumProfiles == 2        \* versions of the profile's public state
NumProfileIds == 2      \* numeric ids the provider may report for the username
MaxCalls == 3           \* direct update_metadata_file calls per behaviour
NumKeys == 2            \* keys an entry passed to update_metadata_file may have
TicksPerSecond == 2     \* clock ticks per second: datetime.now() is finer than "%S"

HighlightIds == 1..NumHighlights
StoryIds == 1..NumStories

Range(s) == {s[i] : i \in DOMAIN s}

(***************************************************************************)
(* Python values.                                                          *)
(***************************************************************************)
PyInt(n) == [t |-> "int", v |-> n]
PyStr(s) == [t |-> "str", v |-> s]
PyNone == [t |-> "null"]
PyBool(b) == [t |-> "bool", v |-> b]
PyList(s) == [t |-> "list", v |-> s]
PyTuple(s) == [t |-> "tuple", v |-> s]
PyDict(pairs) == [t |-> "dict", v |-> pairs]
EmptyDict == PyDict(<<>>)

\* dict operations; a dict keeps its keys in insertion order
DictKeys(d) == {d.v[i][1] : i \in DOMAIN d.v}
DictHas(d, k) == k \in DictKeys(d)
DictGet(d, k) == d.v[CHOOSE i \in DOMAIN d.v : d.v[i][1] = k][2]
\* d[k] = val
DictSet(d, k, val) ==
    IF DictHas(d, k)
    THEN PyDict([i \in DOMAIN d.v |-> IF d.v[i][1] = k THEN <<k, val>> ELSE d.v[i]])
    ELSE PyDict(Append(d.v, <<k, val>>))
\* d.update(e)
RECURSIVE DictUpdateFrom(_, _, _)
DictUpdateFrom(d, e, i) ==
    IF i > Len(e.v) THEN d
    ELSE DictUpdateFrom(DictSet(d, e.v[i][1], e.v[i][2]), e, i + 1)
DictUpdate(d, e) == DictUpdateFrom(d, e, 1)

(***************************************************************************)
(* json.dumps: the text of a value.  A tuple is written as a list.         *)
(***************************************************************************)
RECURSIVE JsonDumps(_)
RECURSIVE JsonItems(_, _)
RECURSIVE JsonPairs(_, _)
JsonItems(s, i) ==
    IF i > Len(s) THEN ""
    ELSE (IF i > 1 THEN ", " ELSE "") \o JsonDumps(s[i]) \o JsonItems(s, i + 1)
JsonPairs(p, i) ==
    IF i > Len(p) THEN ""
    ELSE (IF i > 1 THEN ", " ELSE "") \o ToString(p[i][1]) \o ": "
         \o JsonDumps(p[i][2]) \o JsonPairs(p, i + 1)
JsonDumps(x) ==
    CASE x.t = "int" -> ToString(x.v)
      [] x.t = "str" -> ToString(x.v)
      [] x.t = "null" -> "null"
      [] x.t = "bool" -> (IF x.v THEN "true" ELSE "false")
      [] x.t = "list" -> "[" \o JsonItems(x.v, 1) \o "]"
      [] x.t = "tuple" -> "[" \o JsonItems(x.v, 1) \o "]"
      [] x.t = "dict" -> "{" \o JsonPairs(x.v, 1) \o "}"

\* json.loads(json.dumps(x)): what decoding the text of x gives back
RECURSIVE JsonValue(_)
JsonValue(x) ==
    CASE x.t \in {"list", "tuple"} -> PyList([i \in DOMAIN x.v |-> JsonValue(x.v[i])])
      [] x.t = "dict" ->
            PyDict([i \in DOMAIN x.v |-> <<x.v[i][1], JsonValue(x.v[i][2])>>])
      [] OTHER -> x

(***************************************************************************)
(* Files.                                                                  *)
(***************************************************************************)
Absent == [exists |-> FALSE]
FileOf(d, rest) == [exists |-> TRUE, doc |-> d, trailing |-> rest]
FileText(f) == JsonDumps(f.doc) \o f.trailing

\* open(filename, "w") + json.dump: the file is truncated, then written
save_json(json_data) == FileOf(JsonValue(json_data), "")

\* json.load succeeds when nothing but the document is in the file
JsonLoadOk(f) == f.exists /\ f.trailing = ""

\* os.path.exists guard, json.load, default {}
load_json(f) == IF f.exists THEN f.doc ELSE EmptyDict

\* file.seek(0); json.dump(...) on a file opened "r+": the text is written
\* over the start of the old text, and what the old text had beyond the
\* new text's length stays in the file
WriteAtStart(f, d) ==
    LET new == JsonDumps(d)
        old == FileText(f)
    IN  FileOf(JsonValue(d),
               IF Len(new) < Len(old) THEN SubSeq(old, Len(new) + 1, Len(old)) ELSE "")

\* the merged mapping update_metadata_file computes from the decoded file
MergedMetadata(metadata, category_key, new_metadata, timestamp) ==
    LET cat0 == DictGet(metadata, category_key)
        cat1 == IF ~DictHas(cat0, timestamp)
                THEN DictSet(cat0, timestamp, EmptyDict) ELSE cat0
        entry == DictUpdate(DictGet(cat1, timestamp), new_metadata)
    IN  DictSet(metadata, category_key, DictSet(cat1, timestamp, entry))

\* update_metadata_file on a file json.load can decode
update_metadata_file(f, category_key, new_metadata, timestamp) ==
    WriteAtStart(f, MergedMetadata(f.doc, category_key, new_metadata, timestamp))

initial_metadata ==
    PyDict(<< <<"highlights", EmptyDict>>, <<"stories", EmptyDict>> >>)

\* mutant: the skeleton is written without the exists() test
setup_metadata_file_unguarded(f) == save_json(initial_metadata)

\* setup_metadata_file: written only when the file does not exist
setup_metadata_file(f) == IF ~f.exists THEN save_json(initial_metadata) ELSE f

AllDirs == {"output", "data_dir", "highlights_dir", "stories_dir"}
\* setup_dirs: mkdir(parents=True, exist_ok=True) of the two sub-directories
setup_dirs(ds) == ds \cup AllDirs
\* setup: os.makedirs(data_dir, exist_ok=True)
setup_makedirs(ds) == ds \cup {"output", "data_dir"}


(***************************************************************************)
(* What the provider (instaloader) reports.                                *)
(***************************************************************************)
\* highlight.itemcount and highlight.get_items()
HighlightItemCount(h) == IF h % 2 = 1 THEN 2 ELSE 1
HighlightItems(h) == [j \in 1..HighlightItemCount(h) |-> 10 * h + j]
HighlightTitle(h) == IF h % 2 = 1 THEN "holiday" ELSE "x"
\* story.itemcount and story.get_items()
StoryItemCount(s) == IF s % 2 = 1 THEN 1 ELSE 2
StoryItems(s) == [j \in 1..StoryItemCount(s) |-> 100 * s + j]

\* the sequences an enumeration can yield: any ids, repeats included
Enumerations(ids) == UNION {[1..n -> ids] : n \in 0..MaxEnum}

\* datetime.now().strftime("%Y-%m-%d %H:%M:%S"): the second the tick lies in
Strftime(tick) == ToString(tick \div TicksPerSecond)

\* item_metadata of download_highlights_with_metadata
item_metadata(item) ==
    PyDict(<< <<"media_id", PyInt(item)>>, <<"url", PyStr("u")>>,
              <<"caption", PyNone>>, <<"caption_mentions", PyList(<<>>)>>,
              <<"is_video", PyBool(FALSE)>>, <<"video_url", PyNone>> >>)

\* highlights_metadata once every item of the highlight was appended
highlights_metadata(h) ==
    PyDict(<< <<"id", PyInt(h)>>, <<"title", PyStr(HighlightTitle(h))>>,
              <<"cover_url", PyStr("c")>>,
              <<"highlight_count", PyInt(HighlightItemCount(h))>>,
              <<"stories", PyList([j \in 1..HighlightItemCount(h) |->
                                      item_metadata(HighlightItems(h)[j])])>> >>)

\* story_item_metadata of download_stories_with_metadata
story_item_metadata(item) ==
    PyDict(<< <<"media_id", PyInt(item)>>, <<"url", PyStr("u")>>,
              <<"created_at", PyStr("d")>>, <<"expires_at", PyStr("e")>>,
              <<"caption", PyNone>>, <<"caption_mentions", PyList(<<>>)>>,
              <<"is_video", PyBool(FALSE)>>, <<"video_url", PyNone>> >>)

\* stories_metadata once every item of the story was appended
stories_metadata(s) ==
    PyDict(<< <<"id", PyInt(s)>>, <<"last_seen", PyNone>>,
              <<"latest_media", PyStr("m")>>,
              <<"story_count", PyInt(StoryItemCount(s))>>,
              <<"stories", PyList([j \in 1..StoryItemCount(s) |->
                                      story_item_metadata(StoryItems(s)[j])])>> >>)

\* the record update_profile_info stores for version v of the profile
ProfileRecord(v) ==
    PyDict(<< <<"followers_count", PyInt(v)>>, <<"following_count", PyInt(0)>>,
              <<"bio", PyStr("b")>>, <<"profile_pic_url", PyStr("p")>>,
              <<"followers", PyList([k \in 1..v |->
                                        PyTuple(<<PyInt(k), PyStr("f")>>)])>>,
              <<"following", PyList(<<>>)>> >>)

(***************************************************************************)
(* State.                                                                  *)
(***************************************************************************)
VARIABLES
    dirs,            \* directories that exist
    metaFile,        \* metadata.json
    dataFile,        \* data.json
    hlFile,          \* highlights/downloaded_highlights.json
    stFile,          \* stories/downloaded_stories.json
    pidFile,         \* {username}_profile_id.json
    obj,             \* the InstagramMonitor object of the running process
    now,             \* the wall clock, in ticks
    providerId,      \* the userid the provider reports for the username
    pc,              \* where the caller / the running method is
    timestamp,       \* run_monitor's timestamp
    hlEnum,          \* what get_highlights yields in this run
    stEnum,          \* what get_stories yields in this run
    idx,             \* position of the running loop in its enumeration
    downloaded_ids,  \* the loop's downloaded_ids set
    new_downloads,   \* the loop's new_downloads list
    calls,           \* provider calls and store writes of the running method
    runs,            \* run_monitor calls so far
    outcome,         \* how the last run_monitor call ended
    prevHl,          \* highlight ids the last finished run enumerated
    stored_profile_id,   \* check_and_update_profile_id's local
    current_profile_id,  \* check_and_update_profile_id's local
    idAtCall,        \* the profile-id file when check_and_update_profile_id began
    idStable,        \* the provider's id has not changed during the call
    idWrites,        \* writes of the profile-id file during the call
    metaCalls,       \* the completed direct update_metadata_file calls
    discovered,      \* highlight ids in the order a run first downloaded them
    repeatFree,      \* no get_highlights enumeration so far listed an id twice
    allReturned      \* no run_monitor call so far raised

storage == <<dirs, metaFile, dataFile, hlFile, stFile, pidFile>>
runLocals == <<timestamp, hlEnum, stEnum, idx, downloaded_ids, new_downloads>>
monitorVars == <<dirs, metaFile, dataFile, hlFile, stFile, obj, now, timestamp,
                 hlEnum, stEnum, idx, downloaded_ids, new_downloads,
                 runs, outcome, prevHl, discovered, repeatFree,
                 allReturned>>
idVars == <<pidFile, providerId, stored_profile_id, current_profile_id,
            idAtCall, idStable, idWrites, metaCalls>>
vars == <<monitorVars, idVars, calls, pc>>
found == <<discovered, repeatFree, allReturned>>

NoObject == [exists |-> FALSE]
Unset == [t |-> "unset"]

\* __init__: lines 44-46
NewObject ==
    [exists |-> TRUE,
     downloaded_highlights_list |-> <<>>,
     downloaded_stories_list |-> <<>>,
     data |-> EmptyDict,
     downloaded_highlights |-> Unset,
     downloaded_stories |-> Unset]

\* load_data: self.__dict__[data_key] = load_json(file) for the three keys
\* "data", "downloaded_highlights", "downloaded_stories"
load_data(o, fData, fHl, fSt) ==
    [o EXCEPT !.data = load_json(fData),
              !.downloaded_highlights = load_json(fHl),
              !.downloaded_stories = load_json(fSt)]

\* save_data: the three files get self.__dict__[data_key]
save_data_data(o) == save_json(o.data)
save_data_highlights(o) == save_json(o.downloaded_highlights)
save_data_stories(o) == save_json(o.downloaded_stories)

SaveData(o) ==
    /\ dataFile' = save_data_data(o)
    /\ hlFile' = save_data_highlights(o)
    /\ stFile' = save_data_stories(o)

IdFileOf(id) == FileOf(PyDict(<< <<"profile_id", PyInt(id)>> >>), "")

InitStorage ==
    /\ dirs \in {{}, {"output"}, {"output", "data_dir"}}
    /\ metaFile = Absent
    /\ dataFile = Absent
    /\ hlFile = Absent
    /\ stFile = Absent

InitLocals ==
    /\ obj = NoObject
    /\ now = 0
    /\ pc = "idle"
    /\ timestamp = ""
    /\ hlEnum = <<>>
    /\ stEnum = <<>>
    /\ idx = 0
    /\ downloaded_ids = {}
    /\ new_downloads = <<>>
    /\ calls = <<>>
    /\ runs = 0
    /\ outcome = "none"
    /\ prevHl = {}
    /\ stored_profile_id = 0
    /\ current_profile_id = 0
    /\ idAtCall = Absent
    /\ idStable = TRUE
    /\ idWrites = 0
    /\ metaCalls = <<>>
    /\ discovered = <<>>
    /\ repeatFree = TRUE
    /\ allReturned = TRUE

Init ==
    /\ InitStorage
    /\ InitLocals
    /\ pidFile = Absent
    /\ providerId = 1

(***************************************************************************)
(* __init__                                                                *)
(***************************************************************************)
Construct ==
    /\ pc = "idle"
    /\ dirs' = setup_dirs(dirs)
    /\ metaFile' = setup_metadata_file(metaFile)
    /\ obj' = NewObject
    /\ UNCHANGED <<dataFile, hlFile, stFile, now, runLocals, calls, runs,
                   outcome, prevHl, found, idVars, pc>>

(***************************************************************************)
(* run_monitor                                                             *)
(***************************************************************************)
\* one entry of calls: what was called, on what, and whether it raised
Call(op, target, id, status) == <<op, target, id, status>>

\* the download_storyitem calls of one highlight or story, items[1..n]
ItemCalls(target, items, n) ==
    [j \in 1..n |-> Call("download_storyitem", target, items[j], "ok")]

\* lines 295-304: setup, Profile.from_username, the timestamp, and the
\* start of download_new_highlights
RunStart ==
    /\ pc = "idle"
    /\ obj.exists
    /\ runs < MaxRuns
    /\ runs' = runs + 1
    /\ dirs' = setup_makedirs(dirs)
    /\ obj' = load_data(obj, dataFile, hlFile, stFile)
    /\ \E tick \in now..MaxClock :
          /\ now' = tick
          /\ timestamp' = Strftime(tick)
    /\ \E b \in Enumerations(HighlightIds) :
          /\ hlEnum' = b
          /\ repeatFree' = (repeatFree /\ Cardinality(Range(b)) = Len(b))
    /\ stEnum' = <<>>
    /\ downloaded_ids' = Range(obj.downloaded_highlights_list)
    /\ new_downloads' = <<>>
    /\ idx' = 1
    /\ calls' = << Call("Profile.from_username", "", 0, "ok"),
                   Call("get_highlights", "", 0, "ok") >>
    /\ pc' = "highlights"
    /\ UNCHANGED <<metaFile, dataFile, hlFile, stFile, outcome, prevHl, discovered,
                   allReturned, idVars>>

\* Profile.from_username raises
RunStartRaise ==
    /\ pc = "idle"
    /\ obj.exists
    /\ runs < MaxRuns
    /\ runs' = runs + 1
    /\ dirs' = setup_makedirs(dirs)
    /\ obj' = load_data(obj, dataFile, hlFile, stFile)
    /\ calls' = << Call("Profile.from_username", "", 0, "raised") >>
    /\ pc' = "failed"
    /\ UNCHANGED <<metaFile, dataFile, hlFile, stFile, now, runLocals, outcome,
                   prevHl, found, idVars>>

\* mutant: ids appended during this call count as known too
IsNewHighlight_seen_once(h, known) == h \notin known \cup Range(new_downloads)

\* whether download_new_highlights takes the highlight as new (line 136)
IsNewHighlight(h, known) == h \notin known

\* download_new_highlights, line 136: the highlight is already known
HighlightKnown ==
    /\ pc = "highlights"
    /\ idx <= Len(hlEnum)
    /\ ~IsNewHighlight(hlEnum[idx], downloaded_ids)
    /\ idx' = idx + 1
    /\ UNCHANGED <<storage, obj, now, timestamp, hlEnum, stEnum, downloaded_ids,
                   new_downloads, calls, runs, outcome, prevHl, found, idVars, pc>>

\* lines 136-143 and 147-177: every item is downloaded, the metadata entry
\* is written, the id is appended to new_downloads
HighlightDownload ==
    /\ pc = "highlights"
    /\ idx <= Len(hlEnum)
    /\ LET h == hlEnum[idx] IN
        /\ IsNewHighlight(h, downloaded_ids)
        /\ JsonLoadOk(metaFile)
        /\ calls' = calls
                \o ItemCalls("highlights", HighlightItems(h), HighlightItemCount(h))
                \o << Call("update_metadata_file", "highlights", h, "ok") >>
        /\ metaFile' = update_metadata_file(metaFile, "highlights",
                                            highlights_metadata(h), timestamp)
        /\ new_downloads' = Append(new_downloads, h)
        /\ discovered' = IF h \in Range(discovered) THEN discovered
                                                     ELSE Append(discovered, h)
    /\ idx' = idx + 1
    /\ UNCHANGED <<dirs, dataFile, hlFile, stFile, obj, now, timestamp, hlEnum,
                   stEnum, downloaded_ids, runs, outcome, prevHl, repeatFree,
                   allReturned, idVars, pc>>

\* line 115: json.load raises on a metadata.json it cannot decode
HighlightMetadataRaise ==
    /\ pc = "highlights"
    /\ idx <= Len(hlEnum)
    /\ LET h == hlEnum[idx] IN
        /\ IsNewHighlight(h, downloaded_ids)
        /\ ~JsonLoadOk(metaFile)
        /\ calls' = calls
                \o ItemCalls("highlights", HighlightItems(h), HighlightItemCount(h))
                \o << Call("update_metadata_file", "highlights", h, "raised") >>
    /\ pc' = "failed"
    /\ UNCHANGED <<storage, obj, now, runLocals, runs, outcome, prevHl, found, idVars>>

\* line 164: download_storyitem raises on item n of the highlight
HighlightItemRaise ==
    /\ pc = "highlights"
    /\ idx <= Len(hlEnum)
    /\ LET h == hlEnum[idx] IN
        /\ IsNewHighlight(h, downloaded_ids)
        /\ \E n \in 1..HighlightItemCount(h) :
              calls' = calls
                \o ItemCalls("highlights", HighlightItems(h), n - 1)
                \o << Call("download_storyitem", "highlights",
                           HighlightItems(h)[n], "raised") >>
    /\ pc' = "failed"
    /\ UNCHANGED <<storage, obj, now, runLocals, runs, outcome, prevHl, found, idVars>>

\* mutant: the ids downloaded so far are recorded although the phase fails
HighlightsEnumRaise_recorded ==
    /\ pc = "highlights"
    /\ calls' = Append(calls, Call("get_highlights", "", 0, "raised"))
    /\ obj' = [obj EXCEPT !.downloaded_highlights_list = @ \o new_downloads]
    /\ pc' = "failed"
    /\ UNCHANGED <<storage, now, runLocals, runs, outcome, prevHl, found, idVars>>

\* line 135: the get_highlights generator raises while it is iterated
HighlightsEnumRaise ==
    /\ pc = "highlights"
    /\ calls' = Append(calls, Call("get_highlights", "", 0, "raised"))
    /\ pc' = "failed"
    /\ UNCHANGED <<storage, obj, now, runLocals, runs, outcome, prevHl, found, idVars>>

\* mutant: the stories are enumerated before the list is saved
HighlightsDone_unsaved ==
    /\ pc = "highlights"
    /\ idx > Len(hlEnum)
    /\ obj' = [obj EXCEPT !.downloaded_highlights_list = @ \o new_downloads]
    /\ downloaded_ids' = Range(obj.downloaded_stories_list)
    /\ \E e \in Enumerations(StoryIds) : stEnum' = e
    /\ new_downloads' = <<>>
    /\ idx' = 1
    /\ calls' = Append(calls, Call("get_stories", "", 0, "ok"))
    /\ pc' = "stories"
    /\ UNCHANGED <<storage, now, timestamp, hlEnum, runs, outcome, prevHl, found,
                   idVars>>

\* lines 306-307 and 310, 181-184: the list is extended, save_data, and
\* download_new_stories starts
HighlightsDone ==
    /\ pc = "highlights"
    /\ idx > Len(hlEnum)
    /\ LET o == [obj EXCEPT !.downloaded_highlights_list = @ \o new_downloads] IN
        /\ obj' = o
        /\ SaveData(o)
        /\ downloaded_ids' = Range(o.downloaded_stories_list)
    /\ \E e \in Enumerations(StoryIds) : stEnum' = e
    /\ new_downloads' = <<>>
    /\ idx' = 1
    /\ calls' = calls \o << Call("save_data", "", 0, "ok"),
                            Call("get_stories", "", 0, "ok") >>
    /\ pc' = "stories"
    /\ UNCHANGED <<dirs, metaFile, pidFile, now, timestamp, hlEnum, runs, outcome,
                   prevHl, found, providerId, stored_profile_id, current_profile_id,
                   idAtCall, idStable, idWrites, metaCalls>>

\* mutant: a story is passed over when downloaded_ids holds its id or an
\* earlier timestamp of the log already holds it
StoryDownload_deduplicated ==
    /\ pc = "stories"
    /\ idx <= Len(stEnum)
    /\ JsonLoadOk(metaFile)
    /\ LET s == stEnum[idx]
           cat == DictGet(metaFile.doc, "stories")
           old == {DictGet(cat.v[i][2], "id").v :
                     i \in {j \in DOMAIN cat.v : cat.v[j][1] # timestamp}}
       IN  IF s \in downloaded_ids \cup old
           THEN UNCHANGED <<calls, metaFile>>
           ELSE /\ calls' = calls
                        \o ItemCalls("stories", StoryItems(s), StoryItemCount(s))
                        \o << Call("update_metadata_file", "stories", s, "ok") >>
                /\ metaFile' = update_metadata_file(metaFile, "stories",
                                                    stories_metadata(s), timestamp)
    /\ idx' = idx + 1
    /\ UNCHANGED <<dirs, dataFile, hlFile, stFile, obj, now, timestamp, hlEnum,
                   stEnum, downloaded_ids, new_downloads, runs, outcome, prevHl, found,
                   idVars, pc>>

\* lines 184-189 and 192-220: every enumerated story is downloaded and logged
StoryDownload ==
    /\ pc = "stories"
    /\ idx <= Len(stEnum)
    /\ LET s == stEnum[idx] IN
        /\ JsonLoadOk(metaFile)
        /\ calls' = calls
                \o ItemCalls("stories", StoryItems(s), StoryItemCount(s))
                \o << Call("update_metadata_file", "stories", s, "ok") >>
        /\ metaFile' = update_metadata_file(metaFile, "stories",
                                            stories_metadata(s), timestamp)
    /\ idx' = idx + 1
    /\ UNCHANGED <<dirs, dataFile, hlFile, stFile, obj, now, timestamp, hlEnum,
                   stEnum, downloaded_ids, new_downloads, runs, outcome, prevHl, found,
                   idVars, pc>>

StoryMetadataRaise ==
    /\ pc = "stories"
    /\ idx <= Len(stEnum)
    /\ LET s == stEnum[idx] IN
        /\ ~JsonLoadOk(metaFile)
        /\ calls' = calls
                \o ItemCalls("stories", StoryItems(s), StoryItemCount(s))
                \o << Call("update_metadata_file", "stories", s, "raised") >>
    /\ pc' = "failed"
    /\ UNCHANGED <<storage, obj, now, runLocals, runs, outcome, prevHl, found, idVars>>

StoryItemRaise ==
    /\ pc = "stories"
    /\ idx <= Len(stEnum)
    /\ LET s == stEnum[idx] IN
        \E n \in 1..StoryItemCount(s) :
            calls' = calls
                \o ItemCalls("stories", StoryItems(s), n - 1)
                \o << Call("download_storyitem", "stories", StoryItems(s)[n],
                           "raised") >>
    /\ pc' = "failed"
    /\ UNCHANGED <<storage, obj, now, runLocals, runs, outcome, prevHl, found, idVars>>

StoriesEnumRaise ==
    /\ pc = "stories"
    /\ calls' = Append(calls, Call("get_stories", "", 0, "raised"))
    /\ pc' = "failed"
    /\ UNCHANGED <<storage, obj, now, runLocals, runs, outcome, prevHl, found, idVars>>

\* lines 313-314
StoriesDone ==
    /\ pc = "stories"
    /\ idx > Len(stEnum)
    /\ LET o == [obj EXCEPT !.downloaded_stories_list = @ \o new_downloads] IN
        /\ obj' = o
        /\ SaveData(o)
    /\ calls' = Append(calls, Call("save_data", "", 0, "ok"))
    /\ pc' = "snapshot"
    /\ UNCHANGED <<dirs, metaFile, now, runLocals, runs, outcome, prevHl, found, idVars>>

\* update_profile_info, lines 266-291, for version v of the profile
update_profile_info(o, v, ts) == [o EXCEPT !.data = DictSet(@, ts, ProfileRecord(v))]

SnapshotProfile ==
    /\ pc = "snapshot"
    /\ \E v \in 1..NumProfiles :
         LET o == update_profile_info(obj, v, timestamp) IN
            /\ obj' = o
            /\ SaveData(o)
    /\ calls' = calls \o << Call("get_followers", "", 0, "ok"),
                            Call("get_followees", "", 0, "ok"),
                            Call("save_data", "", 0, "ok") >>
    /\ pc' = "auxiliary"
    /\ UNCHANGED <<dirs, metaFile, now, runLocals, runs, outcome, prevHl, found, idVars>>

\* a provider read of update_profile_info raises (lines 268-278)
SnapshotRaise ==
    /\ pc = "snapshot"
    /\ calls' = Append(calls, Call("get_followers", "", 0, "raised"))
    /\ pc' = "failed"
    /\ UNCHANGED <<storage, obj, now, runLocals, runs, outcome, prevHl, found, idVars>>

\* lines 320-325
DownloadProfile ==
    /\ pc = "auxiliary"
    /\ calls' = Append(calls, Call("download_profile", "", 0, "ok"))
    /\ pc' = "done"
    /\ UNCHANGED <<storage, obj, now, runLocals, runs, outcome, prevHl, found, idVars>>

DownloadProfileRaise ==
    /\ pc = "auxiliary"
    /\ calls' = Append(calls, Call("download_profile", "", 0, "raised"))
    /\ pc' = "failed"
    /\ UNCHANGED <<storage, obj, now, runLocals, runs, outcome, prevHl, found, idVars>>

\* mutant: the except clause logs and does not re-raise
ExceptClause_swallow(state) == "returned"

\* run_monitor returns, or its except clause logs and re-raises (327-329)
ExceptClause(state) == IF state = "failed" THEN "raised" ELSE "returned"

RunEnd ==
    /\ pc \in {"done", "failed"}
    /\ outcome' = ExceptClause(pc)
    /\ prevHl' = Range(hlEnum)
    /\ pc' = "idle"
    /\ timestamp' = ""
    /\ hlEnum' = <<>>
    /\ stEnum' = <<>>
    /\ idx' = 0
    /\ downloaded_ids' = {}
    /\ new_downloads' = <<>>
    /\ calls' = <<>>
    /\ allReturned' = (allReturned /\ pc = "done")
    /\ UNCHANGED <<storage, obj, now, runs, discovered, repeatFree, idVars>>

RunMonitor ==
    \/ RunStart \/ RunStartRaise
    \/ HighlightKnown \/ HighlightDownload \/ HighlightMetadataRaise
    \/ HighlightItemRaise \/ HighlightsEnumRaise \/ HighlightsDone
    \/ StoryDownload \/ StoryMetadataRaise \/ StoryItemRaise
    \/ StoriesEnumRaise \/ StoriesDone
    \/ SnapshotProfile \/ SnapshotRaise
    \/ DownloadProfile \/ DownloadProfileRaise
    \/ RunEnd

Next == Construct \/ RunMonitor

Spec == Init /\ [][Next]_vars

(***************************************************************************)
(* check_and_update_profile_id, with the provider's id free to change      *)
(***************************************************************************)
ProfileIds == 1..NumProfileIds

\* json.load(file)["profile_id"], line 249
StoredId(f) == DictGet(f.doc, "profile_id").v

\* lines 241-249: the file is created from the provider's id when it is
\* missing, then the stored id is read
CheckStart ==
    /\ pc = "idle"
    /\ idAtCall' = pidFile
    /\ idStable' = TRUE
    /\ IF ~pidFile.exists
       THEN /\ pidFile' = IdFileOf(providerId)
            /\ idWrites' = 1
            /\ calls' = << Call("Profile.from_username", "", 0, "ok") >>
       ELSE /\ pidFile' = pidFile
            /\ idWrites' = 0
            /\ calls' = <<>>
    /\ stored_profile_id' = StoredId(pidFile')
    /\ current_profile_id' = 0
    /\ pc' = "id_fetch"
    /\ UNCHANGED <<monitorVars, providerId, metaCalls>>

\* line 245: the fetch for the missing file raises
CheckStartRaise ==
    /\ pc = "idle"
    /\ ~pidFile.exists
    /\ idAtCall' = pidFile
    /\ idStable' = TRUE
    /\ idWrites' = 0
    /\ calls' = << Call("Profile.from_username", "", 0, "raised") >>
    /\ pc' = "id_failed"
    /\ UNCHANGED <<monitorVars, pidFile, providerId, stored_profile_id,
                   current_profile_id, metaCalls>>

\* line 252
CheckFetch ==
    /\ pc = "id_fetch"
    /\ current_profile_id' = providerId
    /\ calls' = Append(calls, Call("Profile.from_username", "", 0, "ok"))
    /\ pc' = "id_compare"
    /\ UNCHANGED <<monitorVars, pidFile, providerId, stored_profile_id, idAtCall,
                   idStable, idWrites, metaCalls>>

CheckFetchRaise ==
    /\ pc = "id_fetch"
    /\ calls' = Append(calls, Call("Profile.from_username", "", 0, "raised"))
    /\ pc' = "id_failed"
    /\ UNCHANGED <<monitorVars, idVars>>

\* mutant: the stored id is compared with itself
IdChanged_never(stored, current) == stored # stored

\* the comparison of line 255
IdChanged(stored, current) == stored # current

\* lines 255-258: on a mismatch the id is fetched again and saved
CheckCompare ==
    /\ pc = "id_compare"
    /\ IF IdChanged(stored_profile_id, current_profile_id)
       THEN /\ pidFile' = IdFileOf(providerId)
            /\ idWrites' = idWrites + 1
            /\ calls' = Append(calls, Call("Profile.from_username", "", 0, "ok"))
       ELSE UNCHANGED <<pidFile, idWrites, calls>>
    /\ pc' = "id_done"
    /\ UNCHANGED <<monitorVars, providerId, stored_profile_id, current_profile_id,
                   idAtCall, idStable, metaCalls>>

\* line 257: the fetch before the save raises
CheckUpdateRaise ==
    /\ pc = "id_compare"
    /\ IdChanged(stored_profile_id, current_profile_id)
    /\ calls' = Append(calls, Call("Profile.from_username", "", 0, "raised"))
    /\ pc' = "id_failed"
    /\ UNCHANGED <<monitorVars, idVars>>

\* the method returns, or lines 259-264 log and re-raise
CheckEnd ==
    /\ pc \in {"id_done", "id_failed"}
    /\ pc' = "idle"
    /\ calls' = <<>>
    /\ UNCHANGED <<monitorVars, idVars>>

\* the account behind the username gets another numeric id
ProviderIdChanges ==
    /\ \E i \in ProfileIds \ {providerId} : providerId' = i
    /\ idStable' = (idStable /\ pc = "idle")
    /\ UNCHANGED <<monitorVars, pidFile, stored_profile_id, current_profile_id,
                   idAtCall, idWrites, metaCalls, calls, pc>>

CheckProfileId ==
    \/ CheckStart \/ CheckStartRaise
    \/ CheckFetch \/ CheckFetchRaise
    \/ CheckCompare \/ CheckUpdateRaise
    \/ CheckEnd

InitProfileId ==
    /\ InitStorage
    /\ InitLocals
    /\ pidFile = Absent
    /\ providerId \in ProfileIds

NextProfileId == CheckProfileId \/ ProviderIdChanges

SpecProfileId == InitProfileId /\ [][NextProfileId]_vars

(***************************************************************************)
(* update_metadata_file called on its own, with any entry                  *)
(***************************************************************************)
KeyName(i) == "k" \o ToString(i)
EntryKeys == {KeyName(i) : i \in 1..NumKeys}
EntryValues == {PyStr("v"), PyStr("longer")}
\* the dicts a caller may pass as new_metadata
Entries ==
    {PyDict(p) : p \in {q \in UNION {[1..n -> EntryKeys \X EntryValues] : n \in 0..NumKeys} :
                           \A i, j \in DOMAIN q : q[i][1] = q[j][1] => i = j}}
Categories == {"highlights", "stories"}
Timestamps == {Strftime(tick) : tick \in 0..MaxClock}

UpdateMetadataCall ==
    /\ pc = "idle"
    /\ obj.exists
    /\ Len(metaCalls) < MaxCalls
    /\ JsonLoadOk(metaFile)
    /\ \E c \in Categories, ts \in Timestamps, e \in Entries :
          /\ metaFile' = update_metadata_file(metaFile, c, e, ts)
          /\ metaCalls' = Append(metaCalls,
                                 [category_key |-> c, timestamp |-> ts,
                                  new_metadata |-> e, before |-> metaFile])
          /\ calls' = << Call("update_metadata_file", c, 0, "ok") >>
    /\ UNCHANGED <<dirs, dataFile, hlFile, stFile, obj, now, runLocals, runs,
                   outcome, prevHl, found, pidFile, providerId, stored_profile_id,
                   current_profile_id, idAtCall, idStable, idWrites, pc>>

\* line 115: json.load raises, nothing is written
UpdateMetadataCallRaise ==
    /\ pc = "idle"
    /\ obj.exists
    /\ ~JsonLoadOk(metaFile)
    /\ \E c \in Categories :
          calls' = << Call("update_metadata_file", c, 0, "raised") >>
    /\ UNCHANGED <<monitorVars, idVars, pc>>

NextMetadata == Construct \/ UpdateMetadataCall \/ UpdateMetadataCallRaise

SpecMetadata == Init /\ [][NextMetadata]_vars

(***************************************************************************)
(* Properties.                                                             *)
(***************************************************************************)
\* the ids of the calls of the running method that completed
OkIds(op, target) ==
    LET sel == SelectSeq(calls, LAMBDA c : c[1] = op /\ c[2] = target /\ c[4] = "ok")
    IN  [i \in DOMAIN sel |-> sel[i][3]]

LastCall == calls[Len(calls)]

RECURSIVE ItemsOf(_, _)
\* the items of the highlights hs, in order
ItemsOf(hs, i) ==
    IF i > Len(hs) THEN <<>> ELSE HighlightItems(hs[i]) \o ItemsOf(hs, i + 1)

RECURSIVE StoryItemsOf(_, _)
StoryItemsOf(ss, i) ==
    IF i > Len(ss) THEN <<>> ELSE StoryItems(ss[i]) \o StoryItemsOf(ss, i + 1)

\* the ids a downloaded-ids file lists
IdsInFile(f) ==
    IF f.exists /\ f.doc.t = "list" THEN {f.doc.v[i].v : i \in DOMAIN f.doc.v} ELSE {}

\* the entries of a category of the metadata log, whatever their timestamp
MetadataEntries(f, category_key) ==
    LET cat == DictGet(f.doc, category_key)
    IN  {cat.v[i][2] : i \in DOMAIN cat.v}

\* C1: a run that completes after a run that completed, and whose provider
\* enumerates only highlights the earlier run enumerated, downloads no
\* highlight item and makes no update_metadata_file call for highlights;
\* the second run may be made by a newly constructed object.
C1_SecondRunDownloadsNoHighlight ==
    (pc = "done" /\ outcome = "returned" /\ Range(hlEnum) \subseteq prevHl)
        => \A i \in DOMAIN calls : calls[i][2] # "highlights"

\* C2: once the save_data that follows download_new_highlights has run,
\* downloaded_highlights.json lists every id of the known-id list (the ids
\* known before the run and the ids downloaded in the phase), also when a
\* later phase of the run fails.
C2_HighlightIdsArePersisted ==
    (pc \in {"stories", "snapshot", "auxiliary", "done", "failed"}
        /\ \E i \in DOMAIN calls : calls[i][1] = "save_data")
        => Range(obj.downloaded_highlights_list) \subseteq IdsInFile(hlFile)

\* C3: while download_new_highlights runs over the enumeration B with known
\* ids A, new_downloads and the highlights downloaded so far are exactly the
\* highlights of the part of B already seen whose id is not in A, in B's
\* order, and the items downloaded are the items of those highlights; when
\* the loop has ended this is the whole of B.
C3_DeltaIsNewSubsequence ==
    pc = "highlights" =>
        LET seen == SubSeq(hlEnum, 1, idx - 1)
            delta == SelectSeq(seen, LAMBDA h : h \notin downloaded_ids)
        IN  /\ new_downloads = delta
            /\ OkIds("update_metadata_file", "highlights") = delta
            /\ OkIds("download_storyitem", "highlights") = ItemsOf(delta, 1)

C3_Witness ==
    /\ pc = "highlights"
    /\ idx > Len(hlEnum)
    /\ Len(hlEnum) = 2
    /\ hlEnum[1] \in downloaded_ids
    /\ hlEnum[2] \notin downloaded_ids
    /\ new_downloads = <<hlEnum[2]>>

\* C4: after a run that downloaded new highlights, the metadata log holds
\* under highlights the record of each of them.
C4_EveryHighlightKeepsItsRecord ==
    pc = "done" =>
        \A h \in Range(OkIds("update_metadata_file", "highlights")) :
            highlights_metadata(h) \in MetadataEntries(metaFile, "highlights")

\* the last two completed direct calls
PrevCall == metaCalls[Len(metaCalls) - 1]
ThisCall == metaCalls[Len(metaCalls)]
\* two calls in a row for the same category and timestamp, the first of
\* which found no entry there
TwoCallsSameEntry ==
    /\ Len(metaCalls) >= 2
    /\ PrevCall.category_key = ThisCall.category_key
    /\ PrevCall.timestamp = ThisCall.timestamp
    /\ ~DictHas(DictGet(PrevCall.before.doc, PrevCall.category_key),
                PrevCall.timestamp)

\* C5: after two update_metadata_file calls with the same category and
\* timestamp, metadata.json decodes to a mapping whose entry under that
\* category and timestamp has the union of the two entries' keys, with the
\* second call's value for a key of the second entry and the first call's
\* value for a key of the first entry only.
C5_TwoCallsMergeKeys ==
    TwoCallsSameEntry =>
        /\ JsonLoadOk(metaFile)
        /\ LET e1 == PrevCall.new_metadata
               e2 == ThisCall.new_metadata
               got == DictGet(DictGet(metaFile.doc, ThisCall.category_key),
                              ThisCall.timestamp)
           IN  /\ DictKeys(got) = DictKeys(e1) \cup DictKeys(e2)
               /\ \A k \in DictKeys(e2) : DictGet(got, k) = DictGet(e2, k)
               /\ \A k \in DictKeys(e1) \ DictKeys(e2) : DictGet(got, k) = DictGet(e1, k)

\* C6: a step never removes a timestamp of data.json nor changes the record
\* stored under it.
C6_SnapshotsAreNeverRewritten ==
    [][dataFile.exists =>
          /\ dataFile'.exists
          /\ \A k \in DictKeys(dataFile.doc) :
                /\ DictHas(dataFile'.doc, k)
                /\ DictGet(dataFile'.doc, k) = DictGet(dataFile.doc, k)]_vars

files == <<metaFile, dataFile, hlFile, stFile, pidFile>>

\* C7: the step in which a call raises writes no file and appends only the
\* raising call; the only step after it is the re-raise to the caller,
\* which writes no file and makes no call; and when download_profile
\* raises, data.json holds the run's snapshot under the run's timestamp
\* and metadata.json an entry under it in each category the run wrote.
C7_FailureIsReraisedAndUndoesNothing ==
    [][/\ (pc' = "failed" /\ pc # "failed") =>
            /\ UNCHANGED files
            /\ calls'[Len(calls')][4] = "raised"
            /\ \A i \in 1..(Len(calls') - 1) : calls'[i][4] = "ok"
            /\ SubSeq(calls', 1, Len(calls)) = calls
       /\ pc = "failed" =>
            /\ pc' = "idle"
            /\ outcome' = "raised"
            /\ UNCHANGED files
       /\ (pc = "auxiliary" /\ pc' = "failed") =>
            /\ dataFile'.exists
            /\ DictHas(dataFile'.doc, timestamp)
            /\ DictGet(dataFile'.doc, timestamp)
                 \in {JsonValue(ProfileRecord(v)) : v \in 1..NumProfiles}
            /\ \A c \in Categories :
                 OkIds("update_metadata_file", c) # <<>>
                    => DictHas(DictGet(metaFile'.doc, c), timestamp)
      ]_vars

C7_Witness ==
    /\ pc = "failed"
    /\ LastCall = Call("download_profile", "", 0, "raised")
    /\ OkIds("update_metadata_file", "highlights") # <<>>
    /\ OkIds("update_metadata_file", "stories") # <<>>
    /\ DictHas(dataFile.doc, timestamp)

\* C8: when check_and_update_profile_id has returned, the profile-id file
\* existed when it began and the provider's id did not change during the
\* call, then the file holds the provider's id after exactly one write if
\* the stored id differed from it, and is the file of before, unwritten, if
\* the stored id was the provider's; the call raises only when a provider
\* call raised.
C8_MismatchIsCorrectedWithoutRaising ==
    /\ (pc = "id_done" /\ idAtCall.exists /\ idStable) =>
          IF StoredId(idAtCall) # providerId
          THEN pidFile = IdFileOf(providerId) /\ idWrites = 1
          ELSE pidFile = idAtCall /\ idWrites = 0
    /\ pc = "id_failed" => LastCall[4] = "raised"

C8_Witness ==
    /\ pc = "id_done"
    /\ idAtCall.exists
    /\ idStable
    /\ StoredId(idAtCall) # providerId
    /\ pidFile = IdFileOf(providerId)

\* the layout step run once more changes nothing
LayoutIsFixpoint(ds, f) ==
    /\ setup_makedirs(setup_dirs(ds)) = ds
    /\ setup_metadata_file(f) = f

\* C9: after the layout step (the constructor's setup_dirs and
\* setup_metadata_file, setup's makedirs) running it again changes neither
\* the directories nor metadata.json; run on a storage it has already laid
\* out it changes nothing; and it never changes an existing metadata.json,
\* data.json or id-list file.
C9_LayoutIsIdempotent ==
    [][/\ Construct =>
            /\ LayoutIsFixpoint(dirs', metaFile')
            /\ LayoutIsFixpoint(dirs, metaFile) => UNCHANGED <<dirs, metaFile>>
            /\ metaFile.exists => metaFile' = metaFile
            /\ UNCHANGED <<dataFile, hlFile, stFile>>
       /\ (RunStart \/ RunStartRaise) =>
            /\ setup_makedirs(dirs') = dirs'
            /\ UNCHANGED <<metaFile, dataFile, hlFile, stFile>>
      ]_vars

C9_Witness ==
    /\ pc = "idle"
    /\ obj = NewObject
    /\ runs > 0
    /\ dataFile.exists
    /\ metaFile.exists
    /\ metaFile.doc # initial_metadata

\* C10: while download_new_stories runs, the stories whose items were
\* fetched and whose metadata entry was written are exactly the stories
\* enumerated so far, in order, whatever the id lists hold; the entry under
\* the run's timestamp is that of the story processed last.
C10_EveryStoryIsProcessed ==
    pc = "stories" =>
        LET seen == SubSeq(stEnum, 1, idx - 1)
        IN  /\ OkIds("update_metadata_file", "stories") = seen
            /\ OkIds("download_storyitem", "stories") = StoryItemsOf(seen, 1)
            /\ seen # <<>> =>
                 DictGet(DictGet(metaFile.doc, "stories"), timestamp)
                    = JsonValue(stories_metadata(seen[Len(seen)]))

\* the loop has ended over a story that an earlier run logged
C10_Witness ==
    /\ pc = "stories"
    /\ idx > Len(stEnum)
    /\ Len(stEnum) >= 1
    /\ LET cat == DictGet(metaFile.doc, "stories")
       IN  \E i \in DOMAIN cat.v :
              /\ cat.v[i][1] # timestamp
              /\ DictGet(cat.v[i][2], "id") = PyInt(stEnum[1])

NoDuplicates(s) == \A i, j \in DOMAIN s : s[i] = s[j] => i = j
PositionIn(s, x) == CHOOSE i \in DOMAIN s : s[i] = x
\* the ids of s stand in the order in which runs first downloaded them
InDiscoveryOrder(s) ==
    /\ Range(s) \subseteq Range(discovered)
    /\ \A i, j \in DOMAIN s :
          i < j => PositionIn(discovered, s[i]) < PositionIn(discovered, s[j])
\* the text a file has when it holds the list of ids s
IdListDocument(s) == JsonValue(PyList([i \in DOMAIN s |-> PyInt(s[i])]))

\* C11: when a run has completed, no earlier run raised and no
\* get_highlights enumeration so far listed an id twice, the known
\* highlight ids -- downloaded_highlights_list in memory, and the same list
\* in downloaded_highlights.json -- hold no id twice and hold the ids in
\* the order in which they were first discovered.
C11_KnownIdsAreDistinctAndOrdered ==
    (pc = "done" /\ repeatFree /\ allReturned) =>
        /\ NoDuplicates(obj.downloaded_highlights_list)
        /\ InDiscoveryOrder(obj.downloaded_highlights_list)
        /\ hlFile.exists
        /\ hlFile.doc = IdListDocument(obj.downloaded_highlights_list)

\* the timestamps data.json holds snapshots for
SnapshotKeys(f) == DictKeys(load_json(f))
\* the timestamps a category of the metadata log has entries for
LogKeys(f, category_key) == DictKeys(DictGet(f.doc, category_key))

\* C12: in a run the timestamp is computed once and kept until the run
\* ends; the step that writes the snapshot adds exactly one entry to
\* data.json, keyed by the run's timestamp, and no other step of the run
\* adds or removes one; and every entry a step of the run writes to the
\* metadata log stands under the run's timestamp.
C12_OneSnapshotUnderTheRunTimestamp ==
    [][/\ (pc \notin {"idle", "done", "failed"}) => timestamp' = timestamp
       /\ (pc = "snapshot" /\ pc' = "auxiliary") =>
            /\ timestamp \notin SnapshotKeys(dataFile)
            /\ SnapshotKeys(dataFile') = SnapshotKeys(dataFile) \cup {timestamp}
       /\ (pc \notin {"idle", "snapshot"}) =>
            SnapshotKeys(dataFile') = SnapshotKeys(dataFile)
       /\ (pc \in {"highlights", "stories"} /\ metaFile' # metaFile) =>
            \E c \in Categories :
               /\ timestamp \in LogKeys(metaFile', c)
               /\ LogKeys(metaFile', c) = LogKeys(metaFile, c) \cup {timestamp}
               /\ \A d \in Categories \ {c} :
                     DictGet(metaFile'.doc, d) = DictGet(metaFile.doc, d)
      ]_vars

\* metadata.json decodes to a mapping with both top-level keys
HasBothCategories(f) ==
    /\ JsonLoadOk(f)
    /\ f.doc.t = "dict"
    /\ Categories \subseteq DictKeys(f.doc)

\* C13: the constructor leaves a metadata.json with both top-level keys,
\* the skeleton when the file was absent; a run starts to enumerate only
\* with such a file in place; and every update_metadata_file call of a run,
\* whether it completes or raises, finds the file holding a mapping with
\* both keys.
C13_MetadataFileIsReadyAtEveryCall ==
    [][/\ Construct =>
            /\ HasBothCategories(metaFile')
            /\ ~metaFile.exists => metaFile' = FileOf(initial_metadata, "")
       /\ RunStart => HasBothCategories(metaFile)
       /\ (HighlightDownload \/ HighlightMetadataRaise
             \/ StoryDownload \/ StoryMetadataRaise) => HasBothCategories(metaFile)
      ]_vars

\* C14: after every completed update_metadata_file call the text of
\* metadata.json is exactly the text of the mapping merged from the file of
\* before and the call's entry, with nothing of the old text after it, so
\* that a later call can decode the file.
C14_FileIsExactlyTheMergedMapping ==
    Len(metaCalls) >= 1 =>
        LET merged == MergedMetadata(ThisCall.before.doc, ThisCall.category_key,
                                     ThisCall.new_metadata, ThisCall.timestamp)
        IN  /\ FileText(metaFile) = JsonDumps(merged)
            /\ JsonLoadOk(metaFile)

\* the save_data calls among the first n calls of the running method
SavesAmong(n) == Cardinality({j \in 1..n : calls[j][1] = "save_data"})
\* the phase call i belongs to: 1 initialise, 2 highlights, 3 stories,
\* 4 snapshot, 5 auxiliary download; a save_data closes the phase it follows
PhaseOfCall(i) ==
    LET c == calls[i] IN
    CASE c[1] = "Profile.from_username" -> 1
      [] c[1] = "get_highlights" \/ c[2] = "highlights" -> 2
      [] c[1] = "get_stories" \/ c[2] = "stories" -> 3
      [] c[1] \in {"get_followers", "get_followees"} -> 4
      [] c[1] = "download_profile" -> 5
      [] c[1] = "save_data" -> SavesAmong(i) + 1
\* the last phase a run at this place may have entered
PhaseOfPc ==
    CASE pc = "highlights" -> 2
      [] pc = "stories" -> 3
      [] pc = "snapshot" -> 4
      [] pc \in {"auxiliary", "done"} -> 5
      [] pc = "failed" -> 5

\* C15: the calls of a run stand in the order of the phases initialise,
\* highlights, stories, snapshot, auxiliary download, and none belongs to a
\* phase the run has not reached; a call of the stories phase has the first
\* save_data before it, a call of the snapshot phase the second,
\* download_profile the third and the run's snapshot in data.json; and a
\* call that raised is the last call of the run, which then has failed.
C15_PhasesRunInOrder ==
    pc \in {"highlights", "stories", "snapshot", "auxiliary", "done", "failed"} =>
        /\ \A i, j \in DOMAIN calls : i < j => PhaseOfCall(i) <= PhaseOfCall(j)
        /\ \A i \in DOMAIN calls :
              /\ PhaseOfCall(i) <= PhaseOfPc
              /\ calls[i][1] # "save_data" /\ PhaseOfCall(i) >= 3 =>
                    SavesAmong(i) = PhaseOfCall(i) - 2
              /\ calls[i][1] = "download_profile" =>
                    /\ dataFile.exists
                    /\ DictHas(dataFile.doc, timestamp)
              /\ calls[i][4] = "raised" => (i = Len(calls) /\ pc = "failed")
        /\ pc = "failed" => LastCall[4] = "raised"
        /\ pc = "done" => LastCall = Call("download_profile", "", 0, "ok")

C15_Witness ==
    /\ pc = "done"
    /\ OkIds("update_metadata_file", "highlights") # <<>>
    /\ OkIds("update_metadata_file", "stories") # <<>>
    /\ SavesAmong(Len(calls)) = 3

\* every item of highlight h was downloaded and its metadata write completed
\* in the running method
CompletedInThisRun(h) ==
    /\ h \in Range(OkIds("update_metadata_file", "highlights"))
    /\ Range(HighlightItems(h)) \subseteq Range(OkIds("download_storyitem", "highlights"))

\* C16: every id of downloaded_highlights_list is the id of a highlight
\* whose items were all downloaded and whose update_metadata_file call
\* completed; the list grows only in the step that ends a highlights phase
\* without a failure, by the ids that phase completed; and a step that
\* fails leaves the list as it was.
C16_KnownIdsAreCompletedHighlights ==
    [][(obj.exists /\ obj'.exists) =>
          LET old == obj.downloaded_highlights_list
              new == obj'.downloaded_highlights_list
          IN  /\ Range(new) \subseteq Range(discovered')
              /\ pc' = "failed" => new = old
              /\ new # old =>
                    \/ Construct /\ new = <<>>
                    \/ /\ pc = "highlights"
                       /\ pc' = "stories"
                       /\ new = old \o new_downloads
                       /\ \A h \in Range(new_downloads) : CompletedInThisRun(h)
                       /\ \A i \in DOMAIN calls : calls[i][4] = "ok"
      ]_vars

\* a highlights phase failed after it had completed a highlight, on an
\* object that knows highlights of an earlier run
C16_Witness ==
    /\ pc = "failed"
    /\ LastCall[1] = "get_highlights" \/ LastCall[2] = "highlights"
    /\ new_downloads # <<>>
    /\ obj.downloaded_highlights_list # <<>>
    /\ Range(new_downloads) \cap Range(obj.downloaded_highlights_list) = {}

\* the entry of metadata.json under a category and a timestamp, as a
\* reader of file f gets it; NoEntry when there is none
NoEntry == [t |-> "missing"]
EntryAt(f, category_key, ts) ==
    IF DictHas(DictGet(f.doc, category_key), ts)
    THEN DictGet(DictGet(f.doc, category_key), ts)
    ELSE NoEntry

\* C17: a completed update_metadata_file(category, entry, timestamp) call
\* leaves a metadata.json that can be read, with the same top-level keys,
\* in which every entry of the other category and of every other timestamp
\* is the entry of before; it changes neither data.json nor the two
\* id-list files nor the object's lists; a call that raises changes no
\* file.
C17_OnlyTheAddressedEntryChanges ==
    [][/\ UpdateMetadataCall =>
            LET call == metaCalls'[Len(metaCalls')]
            IN  /\ JsonLoadOk(metaFile')
                /\ DictKeys(metaFile'.doc) = DictKeys(metaFile.doc)
                /\ \A c \in Categories, ts \in Timestamps :
                      <<c, ts>> # <<call.category_key, call.timestamp>> =>
                          EntryAt(metaFile', c, ts) = EntryAt(metaFile, c, ts)
                /\ UNCHANGED <<dataFile, hlFile, stFile, pidFile, obj>>
       /\ UpdateMetadataCallRaise => UNCHANGED <<files, obj>>
      ]_vars

=============================================================================
